---- MODULE Spec2Model ----
(***************************************************************************)
(* Model of the job store of the Resume_builder application: the App       *)
(* component (jobs, claireMessages, unreadClaire, currentView and the      *)
(* handlers handleAddJob / handleUpdateJob / handleDeleteJob /             *)
(* handleJobStatusChangeNotification) together with the JobTracker         *)
(* component that calls them (handleCreateJob, handleDeleteJob,            *)
(* handleStatusChange, handleRegenerate).                                  *)
(*                                                                         *)
(* An async handler is split at each await.  The part before the first     *)
(* await runs in the step of the UI event; each continuation is a later    *)
(* step.  A continuation reads the constants of the render in which the    *)
(* handler was created (its closure), so every pending operation carries   *)
(* the closure values its continuation reads.  State setters of an         *)
(* unmounted JobTracker have no effect (field "live").                     *)
(*                                                                         *)
(* Job carries the fields the handlers look at; location, salary, email,   *)
(* description and dateApplied are copied along unchanged by every         *)
(* handler and are left out.  The state starts after the initial fetch.    *)
(* The creation form is taken to be at hand whenever JobTracker is         *)
(* mounted (showAddModal only shows and hides it).                         *)
(*                                                                         *)
(* The resume autosave of App (the debounce effect on resume) is modelled  *)
(* for a signed-in user: without a session App renders the sign-in form    *)
(* only.  saves lists the calls of saveResumeToSupabase; the rows of the   *)
(* table 'resumes' that these calls write are not part of the state.       *)
(***************************************************************************)
EXTENDS Integers, Sequences, FiniteSets, TLC

\* ---------------------------------------------------------------- bounds
MaxAdds == 2
MaxOps == 1
MaxPanelOps == 3
MaxCalls == 2
MaxClock == 2
MaxSessionOps == 2
MaxCreates == 2
MaxRegens == 2
MaxLen == 3
MaxEdits == 3

\* ------------------------------------------------------------- constants
APPLIED == "Applied"
INTERVIEW == "Interview"
OFFER == "Offer"
REJECTED == "Rejected"
DRAFT == "Draft"
ACCEPTED == "Accepted"

JobStatus == {APPLIED, INTERVIEW, OFFER, REJECTED, DRAFT, ACCEPTED}

\* the <option> values of the status <select> of the detail panel
SelectStatuses == {APPLIED, INTERVIEW, OFFER, ACCEPTED, REJECTED}

ViewState == {"DASHBOARD", "JOBS", "OFFERS", "RESUME", "AVATAR", "CLAIRE"}

\* the views whose content is a JobTracker
TrackerViews == {"JOBS", "OFFERS"}

\* origin?: undefined
NoOrigin == "undefined"

\* origin?: 'application' | 'offer', or undefined
Origins == {NoOrigin, "application", "offer"}

\* selectedJob: null, and the result of a failed Array.find
NoJob == [id |-> -1]

\* jobToAdd.id: ''
EmptyId == 0

\* identities assigned by the remote store are DbBase + 1, DbBase + 2, ...
\* (uuids: never equal to a Date.now() string)
DbBase == 100

Companies == {"Acme"}

\* companies of the records found in the remote store at start
StoredCompanies == {"Umbrella", "Hooli"}
Roles == {"Engineer"}

\* what the generation call does: it returns text, or it throws
GenOutcomes == {"text", "error"}

\* the views the user navigates to (RESUME and AVATAR show no job state and
\* behave as DASHBOARD here)
NavViews == {"DASHBOARD", "JOBS", "OFFERS", "CLAIRE"}

\* the options the user picks in the status <select>
StatusChoices == {APPLIED, OFFER, ACCEPTED}

\* ------------------------------------------------------ generation service
generateCoverLetterEmpty(outcome) ==
    IF outcome = "text" THEN "cover letter" ELSE ""

generateCoverLetter(outcome) ==
    IF outcome = "text" THEN "cover letter"
    ELSE "Error generating cover letter. Please check your API key."

generateInterviewGuide(outcome) ==
    IF outcome = "text" THEN "interview guide"
    ELSE "Error generating interview guide. Please check your API key."

\* ------------------------------------------------------------ array helpers
\* Array.prototype.find on j.id === id
find(js, id) ==
    IF \E i \in DOMAIN js : js[i].id = id
    THEN js[CHOOSE i \in DOMAIN js : js[i].id = id /\ \A k \in 1..(i - 1) : js[k].id # id]
    ELSE NoJob

\* prev.map(j => j.id === id ? r : j)
mapReplace(js, id, r) == [i \in DOMAIN js |-> IF js[i].id = id THEN r ELSE js[i]]

\* prev.filter(j => j.id !== id)
filterOut(js, id) == SelectSeq(js, LAMBDA j : j.id # id)

\* ------------------------------------------------------------- JobTracker
classifyNoFallback(job) == job.origin

classifyStatusFirst(job) ==
    IF job.status = OFFER THEN "offer"
    ELSE IF job.origin # NoOrigin THEN job.origin ELSE "application"

\* job.origin || (job.status === JobStatus.OFFER ? 'offer' : 'application')
classify(job) ==
    IF job.origin # NoOrigin THEN job.origin
    ELSE IF job.status = OFFER THEN "offer" ELSE "application"

displayedJobs(js, isOffersMode) ==
    SelectSeq(js, LAMBDA job : IF isOffersMode THEN classify(job) = "offer"
                                               ELSE classify(job) = "application")

isJobOfferTypeByOrigin(job) == classify(job) = "offer"

isJobOfferType(job) == job.origin = "offer" \/ job.status = OFFER

\* displayContent: the content field the detail panel shows for the record
displayContent(job) == IF isJobOfferType(job) THEN job.interviewGuide ELSE job.coverLetter

\* handleDownloadPDF: isGuide and content
pdfIsGuide(job) == isJobOfferType(job) \/ job.interviewGuide # ""

pdfContent(job) == IF pdfIsGuide(job) THEN job.interviewGuide ELSE job.coverLetter

defaultStatus(isOffersMode) == IF isOffersMode THEN OFFER ELSE APPLIED

\* ------------------------------------------------------------- notifier
messageText(job, newStatus) ==
    [tone |-> IF newStatus = ACCEPTED THEN "congratulations" ELSE "encouragement",
     role |-> job.role, company |-> job.company]

isNotifiableAcceptedOnly(newStatus) == newStatus = ACCEPTED

\* newStatus === JobStatus.ACCEPTED || newStatus === JobStatus.REJECTED
isNotifiable(newStatus) == newStatus = ACCEPTED \/ newStatus = REJECTED

notifyMessagesPrepend(msgs, job, newStatus, clock) ==
    IF isNotifiable(newStatus)
    THEN <<[id |-> clock, role |-> "model", text |-> messageText(job, newStatus)]>> \o msgs
    ELSE msgs

\* setClaireMessages(prev => [...prev, newMessage])
notifyMessages(msgs, job, newStatus, clock) ==
    IF isNotifiable(newStatus)
    THEN Append(msgs, [id |-> clock, role |-> "model", text |-> messageText(job, newStatus)])
    ELSE msgs

notifyUnreadToggles(unread, newStatus, view) ==
    IF isNotifiable(newStatus) /\ view # "CLAIRE" THEN ~unread ELSE unread

\* if (currentView !== ViewState.CLAIRE) setUnreadClaire(true)
notifyUnread(unread, newStatus, view) ==
    IF isNotifiable(newStatus) /\ view # "CLAIRE" THEN TRUE ELSE unread

\* oldJob && oldJob.status !== job.status
statusChanged(oldJob, job) == oldJob # NoJob /\ oldJob.status # job.status

\* ---------------------------------------------------------- resume autosave
\* The resume document: fullName, and summary standing for every other field
\* (the autosave treats them all alike).
EmptyResume == [fullName |-> "", summary |-> ""]

\* the row fetchData may find in the table 'resumes'; NoResume when there is none
StoredResume == [fullName |-> "Ann", summary |-> "s1"]
NoResume == [fullName |-> "null"]

\* the values the editor's fields are given
FieldValues == [fullName |-> {"", "Ann"}, summary |-> {"", "s1", "s2"}]

NoTimer == [set |-> FALSE]

\* the effect on [resume, session] for a signed-in user: the cleanup has
\* cleared the former timeout; if (!session || !resume.fullName) return;
\* otherwise setTimeout(() => saveResumeToSupabase(resume), 2000)
autosaveEffect(r) ==
    IF r.fullName = "" THEN NoTimer ELSE [set |-> TRUE, resume |-> r]

\* ------------------------------------------------------------ remote store
\* the columns written by supabase.from('jobs').update(...): origin is not among them
remoteUpdate(rows, job) ==
    {IF r.id = job.id THEN [job EXCEPT !.origin = r.origin] ELSE r : r \in rows}

remoteDelete(rows, id) == {r \in rows : r.id # id}

\* ------------------------------------------------------------------- state
VARIABLES
    jobs,            \* App: useState<Job[]>
    claireMessages,  \* App: useState<Message[]>
    unreadClaire,    \* App: useState(false)
    currentView,     \* App: useState<ViewState>
    remote,          \* rows of the table 'jobs' of the remote store
    dbSeq,           \* number of identities the remote store has assigned
    now,             \* the last value Date.now() returned
    selectedJob,     \* JobTracker: useState<Job | null>
    newJobStatus,    \* JobTracker: newJob.status
    isGenerating,    \* JobTracker: useState(false)
    pending,         \* async handlers suspended at an await
    addCount,        \* number of creations submitted
    opCount,         \* number of status changes, regenerations and deletions started
    last,            \* what the last step did
    loading,         \* App: useState(true), false once fetchData has finished
    resume,          \* App: useState<Resume>
    timer,           \* the timeout the autosave effect has set, if any
    saves            \* the documents saveResumeToSupabase was called with

vars == <<jobs, claireMessages, unreadClaire, currentView, remote, dbSeq, now,
          selectedJob, newJobStatus, isGenerating, pending,
          addCount, opCount, last, loading, resume, timer, saves>>

resumeVars == <<loading, resume, timer, saves>>

appVars == <<jobs, claireMessages, unreadClaire, remote, dbSeq>>
trackerVars == <<selectedJob, newJobStatus, isGenerating>>

mounted == currentView \in TrackerViews
isOffersMode == currentView = "OFFERS"
\* a name for a new pending handler
opNumber == CHOOSE n \in 1..(Cardinality(pending) + 1) :
               /\ \A p \in pending : p.n # n
               /\ \A m \in 1..(n - 1) : \E p \in pending : p.n = m

\* the values a call of Date.now() may return
clock == {t \in {now, now + 1} : t <= MaxClock}

Idle == [kind |-> "idle"]

WelcomeMessage == [id |-> 0, role |-> "model", text |-> [tone |-> "welcome", role |-> "", company |-> ""]]

\* rows fetchData may find in the remote store at start (newest first)
StoredJob ==
    [id |-> DbBase, company |-> "Umbrella", role |-> "Analyst", status |-> ACCEPTED,
     origin |-> "application", coverLetter |-> "cover letter", interviewGuide |-> ""]

\* the state once fetchData has loaded `rows` (newest first)
LoadedJobs(rows) ==
    /\ jobs = rows
    /\ remote = {rows[i] : i \in DOMAIN rows}
    /\ claireMessages = <<WelcomeMessage>>
    /\ unreadClaire = FALSE
    /\ dbSeq = 0
    /\ now = 1
    /\ selectedJob = NoJob
    /\ newJobStatus = APPLIED
    /\ isGenerating = FALSE
    /\ pending = {}
    /\ addCount = 0
    /\ opCount = 0
    /\ last = Idle

\* ... and has found no resume row
Loaded(rows) ==
    /\ LoadedJobs(rows)
    /\ loading = FALSE
    /\ resume = EmptyResume
    /\ timer = NoTimer
    /\ saves = <<>>

Init == Loaded(<<>>) /\ currentView = "DASHBOARD"

InitPanel == Loaded(<<StoredJob>>) /\ currentView = "DASHBOARD"

\* the job list on screen, holding one record of any status
InitCalls ==
    \E s \in JobStatus, c \in StoredCompanies, v \in TrackerViews :
        /\ Loaded(<<[StoredJob EXCEPT !.status = s, !.company = c]>>)
        /\ currentView = v

\* one loaded record of any origin and status, nothing generated for it yet
InitRegen ==
    \E o \in Origins, s \in JobStatus, v \in TrackerViews :
        /\ Loaded(<<[StoredJob EXCEPT !.origin = o, !.status = s, !.coverLetter = ""]>>)
        /\ currentView = v

\* one loaded record of any origin and status, with or without a cover letter
\* and an interview guide
InitContent ==
    \E o \in Origins, s \in JobStatus, v \in TrackerViews,
       c \in {"", generateCoverLetter("text")}, g \in {"", generateInterviewGuide("text")} :
        /\ Loaded(<<[StoredJob EXCEPT !.origin = o, !.status = s,
                                      !.coverLetter = c, !.interviewGuide = g]>>)
        /\ currentView = v

\* the resume editor open while fetchData is still waiting for the resume row
InitAutosave ==
    /\ LoadedJobs(<<>>)
    /\ currentView = "RESUME"
    /\ loading = TRUE
    /\ resume = EmptyResume
    /\ timer = NoTimer
    /\ saves = <<>>

\* a loaded list of up to MaxLen records, each of any origin and status
InitLists ==
    \E n \in 0..MaxLen :
        \E o \in [1..n -> Origins], s \in [1..n -> JobStatus] :
            /\ Loaded([i \in 1..n |->
                        [StoredJob EXCEPT !.id = DbBase + i, !.origin = o[i], !.status = s[i]]])
            /\ currentView = "JOBS"

\* ----------------------------------------------------------------- actions
\* Sidebar onChangeView={setCurrentView}, the effect clearing the badge, and
\* the mount / unmount of JobTracker with the viewMode effect
ChangeView(v) ==
    /\ v # currentView
    /\ currentView' = v
    /\ unreadClaire' = IF v = "CLAIRE" THEN FALSE ELSE unreadClaire
    /\ IF mounted /\ v \in TrackerViews
       THEN /\ newJobStatus' = defaultStatus(v = "OFFERS")
            /\ UNCHANGED <<selectedJob, isGenerating, pending>>
       ELSE /\ selectedJob' = NoJob
            /\ isGenerating' = FALSE
            /\ newJobStatus' = defaultStatus(v = "OFFERS")
            /\ pending' = {[p EXCEPT !.live = FALSE] : p \in pending}
    /\ last' = Idle
    /\ UNCHANGED <<jobs, claireMessages, remote, dbSeq, now, addCount, opCount>>
    /\ UNCHANGED resumeVars

\* list row: onClick={() => setSelectedJob(job)}
SelectJob(i) ==
    /\ mounted
    /\ i \in DOMAIN displayedJobs(jobs, isOffersMode)
    /\ selectedJob' = displayedJobs(jobs, isOffersMode)[i]
    /\ selectedJob' # selectedJob
    /\ last' = Idle
    /\ UNCHANGED <<appVars, currentView, now, newJobStatus, isGenerating,
                   pending, addCount, opCount>>
    /\ UNCHANGED resumeVars

\* detail panel X button: onClick={() => setSelectedJob(null)}
CloseDetail ==
    /\ mounted
    /\ selectedJob # NoJob
    /\ selectedJob' = NoJob
    /\ last' = Idle
    /\ UNCHANGED <<appVars, currentView, now, newJobStatus, isGenerating,
                   pending, addCount, opCount>>
    /\ UNCHANGED resumeVars

\* ------------------------------------------------------------- creation
\* handleCreateJob up to the await of the generation call; the submit button
\* is disabled while isGenerating
SubmitCreate(company, role) ==
    /\ mounted
    /\ ~isGenerating
    /\ isGenerating' = TRUE
    /\ pending' = pending \cup
          {[n |-> opNumber, kind |-> "create", phase |-> "generate", live |-> TRUE,
            isOffersMode |-> isOffersMode,
            newJob |-> [company |-> company, role |-> role, status |-> newJobStatus]]}
    /\ addCount' = addCount + 1
    /\ last' = Idle
    /\ UNCHANGED <<appVars, currentView, now, selectedJob, newJobStatus, opCount>>
    /\ UNCHANGED resumeVars

jobToAddLetterOnly(p, outcome) ==
    [id |-> EmptyId, company |-> p.newJob.company, role |-> p.newJob.role,
     status |-> p.newJob.status,
     origin |-> IF p.isOffersMode THEN "offer" ELSE "application",
     coverLetter |-> generateCoverLetter(outcome),
     interviewGuide |-> ""]

\* the record handleCreateJob builds once the generation call has returned
jobToAdd(p, outcome) ==
    [id |-> EmptyId,
     company |-> p.newJob.company,
     role |-> p.newJob.role,
     status |-> p.newJob.status,
     origin |-> IF p.isOffersMode THEN "offer" ELSE "application",
     coverLetter |-> IF p.isOffersMode THEN "" ELSE generateCoverLetter(outcome),
     interviewGuide |-> IF p.isOffersMode THEN generateInterviewGuide(outcome) ELSE ""]

\* setJobs(prev => [optimisticJob, ...prev])
insertOptimisticAtEnd(js, job, tempId) == js \o <<[job EXCEPT !.id = tempId]>>

insertOptimistic(js, job, tempId) == <<[job EXCEPT !.id = tempId]>> \o js

\* handleCreateJob from the return of the generation call to the await of
\* onAddJob, and handleAddJob up to the await of the insert
CreateGenerated(p, outcome) ==
    /\ p \in pending
    /\ p.kind = "create"
    /\ p.phase = "generate"
    /\ \E tempId \in clock :
        LET job == jobToAdd(p, outcome)
        IN
          /\ now' = tempId
          /\ jobs' = insertOptimistic(jobs, job, tempId)
          /\ pending' = (pending \ {p}) \cup
                {[n |-> p.n, kind |-> "create", phase |-> "insert", live |-> p.live,
                  isOffersMode |-> p.isOffersMode, job |-> job, tempId |-> tempId]}
          /\ last' = [kind |-> "add", id |-> tempId]
    /\ UNCHANGED <<claireMessages, unreadClaire, remote, dbSeq, currentView,
                   trackerVars, addCount, opCount>>
    /\ UNCHANGED resumeVars

\* setJobs(prev => prev.map(j => j.id === tempId ? realJob : j))
replaceOptimistic(js, tempId, job, realId) == mapReplace(js, tempId, [job EXCEPT !.id = realId])

\* setJobs(prev => prev.filter(j => j.id !== tempId))
revertOptimistic(js, tempId) == filterOut(js, tempId)

\* how the promise returned by handleAddJob settles: the catch block logs
\* the error and returns
addSettles(ok) == "resolved"

\* handleCreateJob after `await onAddJob(jobToAdd)`
afterAdd(p) ==
    IF p.live
    THEN /\ isGenerating' = FALSE
         /\ newJobStatus' = defaultStatus(p.isOffersMode)
         /\ UNCHANGED selectedJob
    ELSE UNCHANGED trackerVars

\* handleAddJob after the insert has succeeded (ok) or failed, then the rest
\* of handleCreateJob
CompleteInsert(p, ok) ==
    /\ p \in pending
    /\ p.kind = "create"
    /\ p.phase = "insert"
    /\ LET realId == DbBase + dbSeq + 1
       IN IF ok
          THEN /\ remote' = remote \cup {[p.job EXCEPT !.id = realId]}
               /\ dbSeq' = dbSeq + 1
               /\ jobs' = replaceOptimistic(jobs, p.tempId, p.job, realId)
               /\ last' = [kind |-> "addDone", ok |-> TRUE, tempId |-> p.tempId,
                           id |-> realId, job |-> p.job, settled |-> addSettles(ok)]
          ELSE /\ UNCHANGED <<remote, dbSeq>>
               /\ jobs' = revertOptimistic(jobs, p.tempId)
               /\ last' = [kind |-> "addDone", ok |-> FALSE, tempId |-> p.tempId,
                           id |-> EmptyId, job |-> p.job, settled |-> addSettles(ok)]
    /\ IF addSettles(ok) = "resolved" THEN afterAdd(p) ELSE UNCHANGED trackerVars
    /\ pending' = pending \ {p}
    /\ UNCHANGED <<claireMessages, unreadClaire, currentView, now, addCount, opCount>>
    /\ UNCHANGED resumeVars

\* ---------------------------------------------------------------- update
\* handleUpdateJob up to the await of the remote update.  oldJob is
\* jobs.find(j => j.id === job.id) and closureView is currentView, both read
\* from the render that created the handler; setJobs and setClaireMessages
\* apply to the current state.
updateApplyUpsert(js, job) ==
    IF find(js, job.id) = NoJob THEN <<job>> \o js ELSE mapReplace(js, job.id, job)

updateApply(js, job) == mapReplace(js, job.id, job)

handleUpdateJob(job, oldJob, closureView, via) ==
    /\ jobs' = updateApply(jobs, job)
    /\ IF statusChanged(oldJob, job)
       THEN \E t \in clock :
            /\ now' = IF isNotifiable(job.status) THEN t ELSE now
            /\ claireMessages' = notifyMessages(claireMessages, job, job.status, t)
            /\ unreadClaire' = notifyUnread(unreadClaire, job.status, closureView)
       ELSE UNCHANGED <<claireMessages, unreadClaire, now>>
    /\ last' = [kind |-> "update", via |-> via, id |-> job.id, status |-> job.status,
                stored |-> find(jobs, job.id).id # NoJob.id,
                storedStatus |-> IF find(jobs, job.id) = NoJob THEN "" ELSE find(jobs, job.id).status,
                notified |-> IF statusChanged(oldJob, job) THEN 1 ELSE 0]

\* status <select> of the detail panel: handleStatusChange up to the await of
\* onUpdateJob
StatusChange(newStatus) ==
    /\ mounted
    /\ selectedJob # NoJob
    /\ newStatus \in SelectStatuses
    /\ newStatus # selectedJob.status
    /\ LET jobToUpdate == find(jobs, selectedJob.id)
       IN /\ jobToUpdate # NoJob
          /\ LET updatedJob == [jobToUpdate EXCEPT !.status = newStatus]
             IN /\ handleUpdateJob(updatedJob, find(jobs, updatedJob.id), currentView, "status")
                /\ pending' = pending \cup
                      {[n |-> opNumber, kind |-> "status", phase |-> "update",
                        live |-> TRUE, job |-> updatedJob]}
    /\ opCount' = opCount + 1
    /\ UNCHANGED <<remote, dbSeq, currentView, trackerVars, addCount>>
    /\ UNCHANGED resumeVars

\* onUpdateJob(job) called from the current render with record i given the
\* status newStatus
UpdateCall(i, newStatus) ==
    /\ mounted
    /\ i \in DOMAIN jobs
    /\ LET job == [jobs[i] EXCEPT !.status = newStatus]
       IN /\ handleUpdateJob(job, find(jobs, job.id), currentView, "call")
          /\ pending' = pending \cup
                {[n |-> opNumber, kind |-> "call", phase |-> "update",
                  live |-> FALSE, job |-> job]}
    /\ opCount' = opCount + 1
    /\ UNCHANGED <<remote, dbSeq, currentView, trackerVars, addCount>>
    /\ UNCHANGED resumeVars

\* Regenerate button: handleRegenerate up to the await of the generation call
Regenerate ==
    /\ mounted
    /\ selectedJob # NoJob
    /\ pending' = pending \cup
          {[n |-> opNumber, kind |-> "regenerate", phase |-> "generate", live |-> TRUE,
            selectedJob |-> selectedJob, oldJob |-> find(jobs, selectedJob.id),
            currentView |-> currentView]}
    /\ opCount' = opCount + 1
    /\ last' = Idle
    /\ UNCHANGED <<appVars, currentView, now, trackerVars, addCount>>
    /\ UNCHANGED resumeVars

\* the record handleRegenerate passes to onUpdateJob
regenerated(job, outcome) ==
    IF isJobOfferType(job)
    THEN [job EXCEPT !.interviewGuide = generateInterviewGuide(outcome)]
    ELSE [job EXCEPT !.coverLetter = generateCoverLetter(outcome)]

\* handleRegenerate from the return of the generation call to the await of
\* onUpdateJob
RegenGenerated(p, outcome) ==
    /\ p \in pending
    /\ p.kind = "regenerate"
    /\ p.phase = "generate"
    /\ LET updatedJob == regenerated(p.selectedJob, outcome)
       IN /\ handleUpdateJob(updatedJob, p.oldJob, p.currentView, "regenerate")
          /\ pending' = (pending \ {p}) \cup
                {[n |-> p.n, kind |-> "regenerate", phase |-> "update",
                  live |-> p.live, job |-> updatedJob]}
    /\ UNCHANGED <<remote, dbSeq, currentView, trackerVars, addCount, opCount>>
    /\ UNCHANGED resumeVars

updateFailedReverts(js, job) == filterOut(js, job.id)

\* catch (error) { console.error("Error updating job", error) }
updateFailed(js, job) == js

\* handleUpdateJob after the remote update has succeeded (ok) or failed, then
\* setSelectedJob(updatedJob) of handleStatusChange / handleRegenerate
CompleteUpdate(p, ok) ==
    /\ p \in pending
    /\ p.phase = "update"
    /\ remote' = IF ok THEN remoteUpdate(remote, p.job) ELSE remote
    /\ selectedJob' = IF p.live THEN p.job ELSE selectedJob
    /\ pending' = pending \ {p}
    /\ jobs' = IF ok THEN jobs ELSE updateFailed(jobs, p.job)
    /\ last' = [kind |-> "updateDone", ok |-> ok, id |-> p.job.id, status |-> p.job.status]
    /\ UNCHANGED <<claireMessages, unreadClaire, dbSeq, currentView, now,
                   newJobStatus, isGenerating, addCount, opCount>>
    /\ UNCHANGED resumeVars

\* ---------------------------------------------------------------- delete
\* ids of the trash buttons on screen: one per list row, one in the panel
deletable ==
    {displayedJobs(jobs, isOffersMode)[i].id : i \in DOMAIN displayedJobs(jobs, isOffersMode)}
       \cup (IF selectedJob # NoJob THEN {selectedJob.id} ELSE {})

\* setJobs(prev => prev.filter(j => j.id !== id))
deleteApply(js, id) == filterOut(js, id)

\* JobTracker.handleDeleteJob and App.handleDeleteJob up to the await of the
\* remote delete
DeleteJob(id) ==
    /\ mounted
    /\ id \in deletable
    /\ jobs' = deleteApply(jobs, id)
    /\ pending' = pending \cup
          {[n |-> opNumber, kind |-> "delete", phase |-> "delete", live |-> TRUE,
            id |-> id, selectedJob |-> selectedJob]}
    /\ opCount' = opCount + 1
    /\ last' = [kind |-> "delete", id |-> id]
    /\ UNCHANGED <<claireMessages, unreadClaire, remote, dbSeq, currentView, now,
                   trackerVars, addCount>>
    /\ UNCHANGED resumeVars

\* onDeleteJob(id) called from the current render
DeleteCall(i) ==
    /\ mounted
    /\ i \in DOMAIN jobs
    /\ jobs' = deleteApply(jobs, jobs[i].id)
    /\ pending' = pending \cup
          {[n |-> opNumber, kind |-> "delete", phase |-> "delete", live |-> FALSE,
            id |-> jobs[i].id, selectedJob |-> NoJob]}
    /\ opCount' = opCount + 1
    /\ last' = [kind |-> "delete", id |-> jobs[i].id]
    /\ UNCHANGED <<claireMessages, unreadClaire, remote, dbSeq, currentView, now,
                   trackerVars, addCount>>
    /\ UNCHANGED resumeVars

\* catch (error) { console.error("Error deleting job", error) }
deleteFailed(js, id) == js

\* App.handleDeleteJob after the remote delete has succeeded (ok) or failed,
\* then `if (selectedJob?.id === jobId) setSelectedJob(null)`
CompleteDelete(p, ok) ==
    /\ p \in pending
    /\ p.kind = "delete"
    /\ remote' = IF ok THEN remoteDelete(remote, p.id) ELSE remote
    /\ selectedJob' = IF p.live /\ p.selectedJob.id = p.id THEN NoJob ELSE selectedJob
    /\ pending' = pending \ {p}
    /\ jobs' = IF ok THEN jobs ELSE deleteFailed(jobs, p.id)
    /\ last' = [kind |-> "deleteDone", ok |-> ok, id |-> p.id]
    /\ UNCHANGED <<claireMessages, unreadClaire, dbSeq, currentView, now,
                   newJobStatus, isGenerating, addCount, opCount>>
    /\ UNCHANGED resumeVars

\* a render of JobTracker in each of its two modes: the list each one shows
ShowLists ==
    /\ mounted
    /\ last' = [kind |-> "lists",
                applications |-> displayedJobs(jobs, FALSE),
                offers |-> displayedJobs(jobs, TRUE)]
    /\ last' # last
    /\ UNCHANGED <<appVars, currentView, now, trackerVars, pending, addCount, opCount>>
    /\ UNCHANGED resumeVars

\* the Download PDF button of the detail panel: handleDownloadPDF
DownloadPDF ==
    /\ mounted
    /\ selectedJob # NoJob
    /\ last' = [kind |-> "pdf", isGuide |-> pdfIsGuide(selectedJob),
                content |-> pdfContent(selectedJob)]
    /\ UNCHANGED <<appVars, currentView, now, trackerVars, pending, addCount, opCount>>
    /\ UNCHANGED resumeVars

\* fetchData from the answer of the resume query on: setResume(row) when there
\* is a row, setLoading(false); the new resume runs the autosave effect
FetchResume(row) ==
    /\ loading
    /\ loading' = FALSE
    /\ resume' = IF row = NoResume THEN resume ELSE row
    /\ timer' = IF row = NoResume THEN timer ELSE autosaveEffect(row)
    /\ last' = [kind |-> "loaded"]
    /\ UNCHANGED <<appVars, currentView, now, trackerVars, pending, addCount, opCount, saves>>

\* ResumeBuilder updateField: setResume(prev => ({...prev, [field]: value}));
\* the new resume runs the autosave effect.  The editor is rendered once
\* loading is over.
EditResume(field, value) ==
    /\ ~loading
    /\ currentView = "RESUME"
    /\ value # resume[field]
    /\ resume' = [resume EXCEPT ![field] = value]
    /\ timer' = autosaveEffect(resume')
    /\ opCount' = opCount + 1
    /\ last' = [kind |-> "edit", field |-> field]
    /\ UNCHANGED <<appVars, currentView, now, trackerVars, pending, addCount, loading, saves>>

\* the timeout of the autosave effect elapses, 2000 ms after it was set:
\* saveResumeToSupabase(resume) with the resume of the render that set it
TimerFires ==
    /\ timer.set
    /\ saves' = Append(saves, timer.resume)
    /\ timer' = NoTimer
    /\ last' = [kind |-> "save"]
    /\ UNCHANGED <<appVars, currentView, now, trackerVars, pending, addCount, opCount,
                   loading, resume>>

\* ------------------------------------------------------------ specification
\* The bounds limit how many operations the user starts; the handlers
\* themselves have no such limit.
Next ==
    \/ \E v \in NavViews : ChangeView(v)
    \/ \E i \in 1..(MaxAdds + 1) : SelectJob(i)
    \/ CloseDetail
    \/ addCount < MaxAdds /\ \E c \in Companies, r \in Roles : SubmitCreate(c, r)
    \/ \E p \in pending, o \in GenOutcomes : CreateGenerated(p, o)
    \/ \E p \in pending, ok \in BOOLEAN : CompleteInsert(p, ok)
    \/ opCount < MaxOps /\ \E s \in StatusChoices : StatusChange(s)
    \/ opCount < MaxOps /\ Regenerate
    \/ \E p \in pending, o \in GenOutcomes : RegenGenerated(p, o)
    \/ \E p \in pending, ok \in BOOLEAN : CompleteUpdate(p, ok)
    \/ opCount < MaxOps /\ \E id \in deletable : DeleteJob(id)
    \/ \E p \in pending, ok \in BOOLEAN : CompleteDelete(p, ok)

Spec == Init /\ [][Next]_vars

\* The same program with a remote store whose calls all succeed.
NextReliable ==
    \/ \E v \in NavViews : ChangeView(v)
    \/ \E i \in 1..(MaxAdds + 1) : SelectJob(i)
    \/ CloseDetail
    \/ addCount < MaxAdds /\ \E c \in Companies, r \in Roles : SubmitCreate(c, r)
    \/ \E p \in pending, o \in GenOutcomes : CreateGenerated(p, o)
    \/ \E p \in pending : CompleteInsert(p, TRUE)
    \/ opCount < MaxOps /\ \E s \in StatusChoices : StatusChange(s)
    \/ opCount < MaxOps /\ Regenerate
    \/ \E p \in pending, o \in GenOutcomes : RegenGenerated(p, o)
    \/ \E p \in pending : CompleteUpdate(p, TRUE)
    \/ opCount < MaxOps /\ \E id \in deletable : DeleteJob(id)
    \/ \E p \in pending : CompleteDelete(p, TRUE)

SpecReliable == Init /\ [][NextReliable]_vars

\* A session on a record loaded from the remote store, without creations.
NextPanel ==
    \/ \E v \in NavViews : ChangeView(v)
    \/ SelectJob(1)
    \/ CloseDetail
    \/ opCount < MaxPanelOps /\ \E s \in StatusChoices : StatusChange(s)
    \/ opCount < MaxPanelOps /\ Regenerate
    \/ \E p \in pending, o \in GenOutcomes : RegenGenerated(p, o)
    \/ \E p \in pending, ok \in BOOLEAN : CompleteUpdate(p, ok)
    \/ opCount < MaxPanelOps /\ \E id \in deletable : DeleteJob(id)
    \/ \E p \in pending, ok \in BOOLEAN : CompleteDelete(p, ok)

SpecPanel == InitPanel /\ [][NextPanel]_vars

\* App's handlers taken alone: onUpdateJob and onDeleteJob called from the
\* current render on a loaded record, for every pair of old and new status.
NextCalls ==
    \/ opCount < MaxCalls /\ \E s \in JobStatus : UpdateCall(1, s)
    \/ opCount < MaxCalls /\ DeleteCall(1)
    \/ \E p \in pending, ok \in BOOLEAN : CompleteUpdate(p, ok)
    \/ \E p \in pending, ok \in BOOLEAN : CompleteDelete(p, ok)

SpecCalls == InitCalls /\ [][NextCalls]_vars

\* the statuses chosen in the shorter session: both notifiable ones and one
\* that is not
SessionChoices == {APPLIED, ACCEPTED, REJECTED}

\* A shorter session on the loaded record.
NextSession ==
    \/ \E v \in NavViews : ChangeView(v)
    \/ SelectJob(1)
    \/ CloseDetail
    \/ opCount < MaxSessionOps /\ \E s \in SessionChoices : StatusChange(s)
    \/ opCount < MaxSessionOps /\ Regenerate
    \/ \E p \in pending, o \in GenOutcomes : RegenGenerated(p, o)
    \/ \E p \in pending, ok \in BOOLEAN : CompleteUpdate(p, ok)
    \/ opCount < MaxSessionOps /\ \E id \in deletable : DeleteJob(id)
    \/ \E p \in pending, ok \in BOOLEAN : CompleteDelete(p, ok)

SpecSession == InitPanel /\ [][NextSession]_vars

\* Creations on top of a loaded record.
NextCreate ==
    \/ \E v \in NavViews : ChangeView(v)
    \/ \E i \in 1..(MaxCreates + 1) : SelectJob(i)
    \/ CloseDetail
    \/ addCount < MaxCreates /\ \E c \in Companies, r \in Roles : SubmitCreate(c, r)
    \/ \E p \in pending, o \in GenOutcomes : CreateGenerated(p, o)
    \/ \E p \in pending, ok \in BOOLEAN : CompleteInsert(p, ok)

SpecCreate == InitPanel /\ [][NextCreate]_vars

\* Regenerations of one loaded record, for every origin and status.
NextRegen ==
    \/ \E v \in NavViews : ChangeView(v)
    \/ SelectJob(1)
    \/ CloseDetail
    \/ opCount < MaxRegens /\ Regenerate
    \/ \E p \in pending, o \in GenOutcomes : RegenGenerated(p, o)
    \/ \E p \in pending, ok \in BOOLEAN : CompleteUpdate(p, ok)

SpecRegen == InitRegen /\ [][NextRegen]_vars

\* The two job lists rendered from a loaded list of records.
NextLists ==
    \/ \E v \in TrackerViews : ChangeView(v)
    \/ ShowLists

SpecLists == InitLists /\ [][NextLists]_vars

\* The detail panel and its PDF for a loaded record.
NextContent ==
    \/ \E v \in NavViews : ChangeView(v)
    \/ SelectJob(1)
    \/ CloseDetail
    \/ DownloadPDF

SpecContent == InitContent /\ [][NextContent]_vars

\* The resume editor and the autosave.
NextAutosave ==
    \/ \E row \in {NoResume, StoredResume} : FetchResume(row)
    \/ opCount < MaxEdits /\ \E f \in DOMAIN FieldValues : \E v \in FieldValues[f] : EditResume(f, v)
    \/ TimerFires

SpecAutosave == InitAutosave /\ [][NextAutosave]_vars

\* =================================================================== claims
count(js, id) == Cardinality({i \in DOMAIN js : js[i].id = id})

\* js without its k-th record (js itself for k = 0)
removeAt(js, k) == [i \in 1..(Len(js) - (IF k = 0 THEN 0 ELSE 1)) |->
                       IF k = 0 \/ i < k THEN js[i] ELSE js[i + 1]]

addSucceeded == last'.kind = "addDone" /\ last'.ok
addFailed == last'.kind = "addDone" /\ ~last'.ok

\* C1: when the insert of an add succeeds and returns id X, the step that
\* completes the add leaves exactly one record with identity X, equal to the
\* submitted job in every other field, at the index where the optimistic
\* record stood.
C1_Reconciled ==
    [][addSucceeded =>
          /\ count(jobs', last'.id) = 1
          /\ Len(jobs') = Len(jobs)
          /\ \A i \in DOMAIN jobs' :
                jobs'[i].id = last'.id =>
                   /\ jobs'[i] = [last'.job EXCEPT !.id = last'.id]
                   /\ jobs[i].id = last'.tempId]_vars

\* C2: when the insert of an add fails, the step that completes the add
\* leaves no record with the temporary identity, and removes nothing but the
\* one record of that add: every other record stays where it was.
C2_RolledBack ==
    [][addFailed =>
          /\ count(jobs', last'.tempId) = 0
          /\ \E k \in 0..Len(jobs) : jobs' = removeAt(jobs, k)]_vars

\* C3: the completion of an add does not overwrite what a later operation
\* has applied to its record: the record that carried the temporary identity
\* keeps every field but the identity.
C3_LaterEffectKept ==
    [][addSucceeded =>
          \A i \in DOMAIN jobs :
             jobs[i].id = last'.tempId =>
                /\ i \in DOMAIN jobs'
                /\ jobs'[i] = [jobs[i] EXCEPT !.id = last'.id]]_vars

persistenceOutstanding == \E p \in pending : p.phase # "generate"

\* C4: with a remote store whose calls all succeed, whenever no persistence
\* call is outstanding the records in memory are exactly the rows of the
\* remote store, one for one.
C4_Consistent ==
    ~persistenceOutstanding =>
        /\ {jobs[i] : i \in DOMAIN jobs} = remote
        /\ Len(jobs) = Cardinality(remote)

\* C5: an update that changes the status stored in the collection for its
\* record calls the notifier once, in the step of the optimistic apply.
C5_NotifiedOnChange ==
    (last.kind = "update" /\ last.stored /\ last.storedStatus # last.status)
        => last.notified = 1

C7_SilentOnSameStatus ==
    [][(last'.kind = "update" /\ last'.stored /\ last'.storedStatus = last'.status) =>
          /\ claireMessages' = claireMessages
          /\ unreadClaire' => unreadClaire]_vars

\* C8: the step in which the remote call of an update or of a delete fails
\* leaves the collection as it is: no rollback of the optimistic apply.
C8_NoRollback ==
    [][((last'.kind = "updateDone" \/ last'.kind = "deleteDone") /\ ~last'.ok) =>
          jobs' = jobs]_vars

\* C8 witness: the update failed, the collection holds the updated record and
\* the remote store still holds another status for it
C8_Witness ==
    /\ last.kind = "updateDone"
    /\ ~last.ok
    /\ \E i \in DOMAIN jobs : jobs[i].id = last.id /\ jobs[i].status = last.status
    /\ \E r \in remote : r.id = last.id /\ r.status # last.status

\* C9: when the insert of an add fails, the promise add returns to its caller
\* is rejected.
C9_FailureReported ==
    (last.kind = "addDone" /\ ~last.ok) => last.settled = "rejected"

\* C10: the collection never holds two entries for one add: at most one entry
\* carries a given identity assigned by the remote store.
C10_SingleEntry ==
    \A x \in (DbBase + 1)..(DbBase + dbSeq) : count(jobs, x) <= 1

\* the given occurrence of the record is listed in l
listed(l, job) == \E k \in DOMAIN l : l[k] = job

\* the position in js of the record of identity id
index(js, id) == CHOOSE i \in DOMAIN js : js[i].id = id

\* l holds its records in the order js holds them
inOrderOf(l, js) ==
    \A a, b \in DOMAIN l : a < b => index(js, l[a].id) < index(js, l[b].id)

\* this step is the write-back of regeneration p, whose remote update is q
regenStep(p, q) ==
    /\ p.kind = "regenerate" /\ p.phase = "generate"
    /\ q.kind = "regenerate" /\ q.phase = "update"
    /\ q.n = p.n

wroteGuide(p, q) ==
    \E o \in GenOutcomes :
        q.job = [p.selectedJob EXCEPT !.interviewGuide = generateInterviewGuide(o)]

wroteLetter(p, q) ==
    \E o \in GenOutcomes :
        q.job = [p.selectedJob EXCEPT !.coverLetter = generateCoverLetter(o)]

\* C11 as stated: of an update and a delete of the same identity, the one
\* applied last decides: after the update the record is in the collection
\* with the update's content, after the delete it is absent.
C11_LastAppliedWins ==
    /\ last.kind = "update" =>
          \E i \in DOMAIN jobs : jobs[i].id = last.id /\ jobs[i].status = last.status
    /\ last.kind = "delete" => count(jobs, last.id) = 0

\* C11 amended: the delete wins in either order.  A delete leaves the record
\* absent; an update never adds a record: it replaces the record of its
\* identity where the collection holds one and leaves the collection as it
\* is where the delete was applied before.
C11_DeleteWins ==
    [][/\ last'.kind = "delete" => count(jobs', last'.id) = 0
       /\ last'.kind = "update" =>
             /\ count(jobs', last'.id) = count(jobs, last'.id)
             /\ \A i \in DOMAIN jobs' :
                   jobs'[i].id = last'.id => jobs'[i].status = last'.status
             /\ \A i \in DOMAIN jobs' :
                   jobs'[i].id # last'.id => jobs'[i] = jobs[i]]_vars

\* an update applied after the delete of its record, the delete still awaiting
\* the remote store
C11_Witness ==
    /\ last.kind = "update" /\ ~last.stored
    /\ count(jobs, last.id) = 0
    /\ \E p \in pending : p.kind = "delete" /\ p.id = last.id

\* C12: the step that calls add puts the new record at the head of the
\* collection, the remote insert still outstanding and the remote store
\* untouched; the records already there follow it in their order.
C12_HeadInsert ==
    [][last'.kind = "add" =>
         /\ Len(jobs') = Len(jobs) + 1
         /\ jobs'[1].id = last'.id
         /\ \A i \in DOMAIN jobs : jobs'[i + 1] = jobs[i]
         /\ \E p \in pending' : p.phase = "insert" /\ p.tempId = last'.id
         /\ remote' = remote]_vars

C12_Witness ==
    /\ last.kind = "add"
    /\ Len(jobs) >= 3
    /\ jobs[1].id = last.id
    /\ jobs[Len(jobs)] = StoredJob

\* C13: the unread flag is a boolean; it goes from set to clear in the step
\* that makes the chat view active and in no other step, and that one step
\* clears it however often it was raised.
C13_ClearedOnChatOnly ==
    [][/\ unreadClaire' \in BOOLEAN
       /\ (unreadClaire /\ ~unreadClaire') =>
             (currentView # "CLAIRE" /\ currentView' = "CLAIRE")
       /\ (currentView # "CLAIRE" /\ currentView' = "CLAIRE") => ~unreadClaire']_vars

\* the chat view entered after two notifications
C13_Witness ==
    /\ currentView = "CLAIRE"
    /\ ~unreadClaire
    /\ Len(claireMessages) = 3
    /\ last = Idle

\* C14: no step taken while the chat view is active raises the unread flag.
C14_QuietWhileChatActive ==
    [][(currentView = "CLAIRE" /\ currentView' = "CLAIRE" /\ unreadClaire')
         => unreadClaire]_vars

\* C15: every step leaves the messages it found in place, unchanged and in
\* order, the welcome message first; it can only add messages after them.
C15_AppendOnly ==
    [][/\ Len(claireMessages') >= Len(claireMessages)
       /\ SubSeq(claireMessages', 1, Len(claireMessages)) = claireMessages
       /\ claireMessages'[1] = WelcomeMessage]_vars

C15_Witness ==
    /\ last.kind = "update" /\ last.notified = 1
    /\ Len(claireMessages) = 3
    /\ claireMessages[1] = WelcomeMessage
    /\ claireMessages[2].text.tone # claireMessages[3].text.tone

\* C16: the applications list and the offers list together hold every record
\* of the collection exactly once, each list in the order of the collection.
C16_PartitionComplete ==
    last.kind = "lists" =>
        /\ Len(last.applications) + Len(last.offers) = Len(jobs)
        /\ \A i \in DOMAIN jobs :
              listed(last.applications, jobs[i]) # listed(last.offers, jobs[i])
        /\ inOrderOf(last.applications, jobs)
        /\ inOrderOf(last.offers, jobs)

C16_Witness ==
    /\ last.kind = "lists"
    /\ Len(last.applications) = 2
    /\ Len(last.offers) = 1
    /\ listed(last.offers, jobs[2])

\* C17: a record with an origin is listed by its origin whatever its status;
\* a record without one is an offer when its status is Offer and an
\* application for every other status.
C17_ClassifiedByOrigin ==
    last.kind = "lists" =>
        \A i \in DOMAIN jobs :
            LET job == jobs[i]
                offerExpected ==
                    \/ job.origin = "offer"
                    \/ job.origin = NoOrigin /\ job.status = OFFER
            IN /\ listed(last.offers, job) <=> offerExpected
               /\ listed(last.applications, job) <=> ~offerExpected

C17_Witness ==
    /\ last.kind = "lists"
    /\ \E i, k \in DOMAIN jobs :
          /\ jobs[i].origin = "application" /\ jobs[i].status = OFFER
          /\ listed(last.applications, jobs[i])
          /\ jobs[k].origin = NoOrigin /\ jobs[k].status = OFFER
          /\ listed(last.offers, jobs[k])

C19_OneRegenerationInFlight ==
    \A p, q \in pending :
        (/\ p.kind = "regenerate" /\ p.phase = "generate"
         /\ q.kind = "regenerate" /\ q.phase = "generate"
         /\ p.selectedJob.id = q.selectedJob.id) => p = q

addCalledFor(p) ==
    \E q \in pending' :
        /\ q.n = p.n /\ q.kind = "create" /\ q.phase = "insert"
        /\ last'.kind = "add" /\ last'.id = q.tempId
        /\ Len(jobs') = Len(jobs) + 1
        /\ jobs'[1] = [q.job EXCEPT !.id = q.tempId]
        /\ jobs'[1].company = p.newJob.company /\ jobs'[1].role = p.newJob.role
        /\ q.job = jobToAdd(p, "error") =>
              IF listed(displayedJobs(jobs', TRUE), jobs'[1])
              THEN jobs'[1].interviewGuide =
                      "Error generating interview guide. Please check your API key."
              ELSE jobs'[1].coverLetter =
                      "Error generating cover letter. Please check your API key."

generating(p) == p.kind = "create" /\ p.phase = "generate"

\* C21: a submitted creation leaves its generation only by calling add, once,
\* whether the generation returned text or failed; after a failure the
\* record carries the failure text in the content field of its list.
C21_AddOncePerSubmission ==
    [][/\ \A p \in pending :
             generating(p) =>
                \/ \E q \in pending' : q.n = p.n /\ generating(q)
                \/ addCalledFor(p)
       /\ last'.kind = "add" =>
             Cardinality({p \in pending : generating(p) /\ addCalledFor(p)}) = 1]_vars

\* add called for an offer whose generation failed
C21_Witness ==
    /\ last.kind = "add"
    /\ jobs[1].id = last.id
    /\ jobs[1].origin = "offer"
    /\ jobs[1].interviewGuide = "Error generating interview guide. Please check your API key."
    /\ jobs[1].coverLetter = ""

\* C24: the record a creation adds has status Applied when its origin is
\* application and status Offer when its origin is offer.
C24_CreationDefaults ==
    [][last'.kind = "add" =>
         /\ jobs'[1].origin = "application" => jobs'[1].status = APPLIED
         /\ jobs'[1].origin = "offer" => jobs'[1].status = OFFER]_vars

\* C28: the write-back of a regeneration leaves the status of the stored
\* record as the collection held it just before, and emits no notification.
C28_OnlyContentWritten ==
    [][(last'.kind = "update" /\ last'.via = "regenerate" /\ last'.stored) =>
         /\ last'.status = last'.storedStatus
         /\ last'.notified = 0
         /\ claireMessages' = claireMessages]_vars

\* C29: the identities of the records in the collection are pairwise
\* distinct.
C29_DistinctIdentities ==
    \A i, k \in DOMAIN jobs : jobs[i].id = jobs[k].id => i = k

\* C30: while a record is selected in the detail panel, the collection holds
\* a record with the identity and the field values of the selected copy.
C30_SelectionInCollection ==
    selectedJob # NoJob => \E i \in DOMAIN jobs : jobs[i] = selectedJob

\* C27: a step that keeps the entries of the collection in place (a status
\* change, a regeneration write-back, an add completion) leaves every entry
\* with the origin it had; a step that adds or removes an entry leaves the
\* origin of every other entry as it was.
C27_OriginKept ==
    [][/\ Len(jobs') = Len(jobs) =>
             \A i \in DOMAIN jobs : jobs'[i].origin = jobs[i].origin
       /\ Len(jobs') = Len(jobs) + 1 =>
             \A i \in DOMAIN jobs : jobs'[i + 1].origin = jobs[i].origin
       /\ Len(jobs') < Len(jobs) =>
             \A i \in DOMAIN jobs' :
                 \E k \in DOMAIN jobs : k >= i /\ jobs'[i] = jobs[k]]_vars

\* C26: for the selected record, the content the detail panel shows and the
\* content Download PDF writes are both the content of the field of the
\* record's list: interviewGuide for an offer, coverLetter for an application.
C26_ActiveFieldShown ==
    selectedJob # NoJob =>
        LET active == IF listed(displayedJobs(<<selectedJob>>, TRUE), selectedJob)
                      THEN selectedJob.interviewGuide ELSE selectedJob.coverLetter
        IN /\ displayContent(selectedJob) = active
           /\ last.kind = "pdf" => last.content = active

\* C25: while an operation awaits its generation or remote call, the
\* mounted job tracker still lets a creation be submitted, the status of a
\* selected record of the collection be changed, and a listed record be
\* deleted.
C25_OthersNotBlocked ==
    (mounted /\ pending # {}) =>
        /\ ENABLED (\E c \in Companies, r \in Roles : SubmitCreate(c, r))
        /\ (selectedJob # NoJob /\ find(jobs, selectedJob.id) # NoJob) =>
               ENABLED (\E s \in SelectStatuses : StatusChange(s))
        /\ deletable # {} => ENABLED (\E id \in deletable : DeleteJob(id))

\* C22: every mutation of the resume cancels the pending persist and leaves
\* exactly one scheduled, carrying the state the mutation produced; when the
\* quiet interval elapses one persistence call is made, with the current
\* document, and none is left scheduled.
C22_OneSavePerBurst ==
    [][/\ last'.kind = "edit" =>
             /\ timer' = [set |-> TRUE, resume |-> resume']
             /\ saves' = saves
       /\ last'.kind = "save" =>
             /\ saves' = Append(saves, resume)
             /\ timer' = NoTimer]_vars

\* C23: the untouched default document is never persisted, and a mutation
\* that leaves the document different from the default schedules its persist.
C23_GuardedAutosave ==
    /\ \A i \in DOMAIN saves : saves[i] # EmptyResume
    /\ (last.kind = "edit" /\ resume # EmptyResume) => (timer.set /\ timer.resume = resume)
====
